---------------------------- MODULE Spec2Model ----------------------------
(***************************************************************************)
(* Model of armory's metric aggregation (armory/utils/metrics.py) and of   *)
(* the GTSRB poisoning scenario                                            *)
(* (armory/scenarios/poisoning_gtsrb_scenario.py).                         *)
(*                                                                         *)
(* Five specifications share the module's variables:                      *)
(*   AccuracySpec    one call of categorical_accuracy                      *)
(*   MetricListSpec  one MetricList: append, clear, mean                   *)
(*   LoggerSpec      one MetricsLogger: update_*, clear, results           *)
(*   ProfilerSpec    the resource_context scopes that write a              *)
(*                   MetricsLogger's computational_resource_dict, and      *)
(*                   results() reading it                                  *)
(*   Spec            one run of GTSRB._evaluate, stage by stage            *)
(*                                                                         *)
(* Arrays are records [shape, v]: shape is the numpy shape, v the nested   *)
(* sequence of entries (an integer for a 0-d array).  Python indices are   *)
(* 0-based; sequences here are 1-based, so index i of the code is entry    *)
(* i + 1 of the sequence.  A mean is the exact fraction [num, den].        *)
(***************************************************************************)
EXTENDS Integers, Sequences, FiniteSets, TLC

(***************************************************************************)
(* Bounds of the model.                                                    *)
(***************************************************************************)
\* labels are 0 .. NumClasses - 1
NumClasses == 2
\* longest batch handed to a metric in MetricListSpec and LoggerSpec
MaxBatch == 3
\* scores a MetricList holds, samples passed to a MetricsLogger between clears
MaxValues == 4
\* executions recorded in the resource ledger
MaxExec == 2
\* longest clean training set of the scenario
MaxTrain == 3

Classes == 0 .. (NumClasses - 1)

(***************************************************************************)
(* Generic helpers.                                                        *)
(***************************************************************************)
RECURSIVE SumSeq(_)
SumSeq(s) == IF s = <<>> THEN 0 ELSE Head(s) + SumSeq(Tail(s))

RECURSIVE Concat(_)
Concat(ss) == IF ss = <<>> THEN <<>> ELSE Head(ss) \o Concat(Tail(ss))

RECURSIVE SelectIdx(_, _, _)
\* the entries of s at the positions i (from position k on) where keep[i]
SelectIdx(s, keep, k) ==
    IF k > Len(s) THEN <<>>
    ELSE (IF keep[k] THEN <<s[k]>> ELSE <<>>) \o SelectIdx(s, keep, k + 1)

SeqsUpTo(S, n) == UNION {[1 .. k -> S] : k \in 0 .. n}

Range(s) == {s[i] : i \in DOMAIN s}

IsInjective(s) == \A i, j \in DOMAIN s : s[i] = s[j] => i = j

Abs(n) == IF n < 0 THEN -n ELSE n

RECURSIVE MaxSeq(_)
MaxSeq(s) == IF Len(s) = 1 THEN s[1]
             ELSE LET m == MaxSeq(Tail(s)) IN IF s[1] >= m THEN s[1] ELSE m

(***************************************************************************)
(* numpy arrays.                                                           *)
(***************************************************************************)
Scalar(n) == [shape |-> <<>>, v |-> n]
Vec(s) == [shape |-> <<Len(s)>>, v |-> s]
Mat(rows, k) == [shape |-> <<Len(rows), k>>, v |-> rows]

ndim(a) == Len(a.shape)

\* np.array([a]) : one more leading dimension of length 1
Wrap(a) == [shape |-> <<1>> \o a.shape, v |-> <<a.v>>]

\* np.argmax of one row: the first position of the largest entry, 0-based
ArgMaxRow(row) == (CHOOSE i \in DOMAIN row :
                      /\ row[i] = MaxSeq(row)
                      /\ \A j \in DOMAIN row : row[j] = MaxSeq(row) => i <= j) - 1

Ok(val) == [err |-> "none", val |-> val]
Raise(e) == [err |-> e, val |-> <<>>]

Bool01(b) == IF b THEN 1 ELSE 0

\* y == np.argmax(y_pred, axis=-1) followed by list() and int(): y is 1-d of
\* length n, y_pred is 2-d of shape (m, k)
ArgmaxCompare(y, p) ==
    LET n == y.shape[1]
        m == p.shape[1]
        k == p.shape[2]
    IN  IF k = 0 /\ m > 0 THEN Raise("ValueError")   \* argmax of an empty row
        ELSE IF n = m
             THEN Ok([i \in 1 .. n |-> Bool01(y.v[i] = ArgMaxRow(p.v[i]))])
        ELSE IF n = 1      \* broadcast of the single label
             THEN Ok([i \in 1 .. m |-> Bool01(y.v[1] = ArgMaxRow(p.v[i]))])
        ELSE IF m = 1      \* broadcast of the single prediction
             THEN Ok([i \in 1 .. n |-> Bool01(y.v[i] = ArgMaxRow(p.v[1]))])
        ELSE Raise("TypeError")  \* the comparison is not an array: list() fails

\* [int(x) for x in list(y == y_pred)] for equal shapes
EqualCompare(y, p) ==
    IF ndim(y) = 1
    THEN Ok([i \in 1 .. y.shape[1] |-> Bool01(y.v[i] = p.v[i])])
    ELSE \* 2-d: each x is a row of booleans; int() takes a row of one entry only
         IF y.shape[1] = 0 THEN Ok(<<>>)
         ELSE IF y.shape[2] = 1
              THEN Ok([i \in 1 .. y.shape[1] |-> Bool01(y.v[i][1] = p.v[i][1])])
              ELSE Raise("TypeError")

categorical_accuracy(y0, p0) ==
    LET y == IF ndim(y0) = 0 THEN Wrap(y0) ELSE y0
        p == IF ndim(y0) = 0 THEN Wrap(p0) ELSE p0
    IN  IF y.shape = p.shape
        THEN EqualCompare(y, p)
        ELSE IF ndim(y) + 1 = ndim(p)
        THEN ArgmaxCompare(y, p)
        ELSE Raise("ValueError")

\* norm(x, x_adv, np.inf) for two arrays of one shape (n, d), d > 0: the
\* largest absolute difference of each row
linf(x, x_adv) ==
    IF x.shape # x_adv.shape \/ ndim(x) # 2 THEN Raise("ValueError")
    ELSE Ok([i \in 1 .. x.shape[1] |->
                MaxSeq([j \in 1 .. x.shape[2] |-> Abs(x.v[i][j] - x_adv.v[i][j])])])

\* SUPPORTED_METRICS: the names the model uses
SUPPORTED_METRICS == {"categorical_accuracy", "linf"}

Apply(function, a, b) ==
    IF function = "categorical_accuracy" THEN categorical_accuracy(a, b)
    ELSE linf(a, b)


(***************************************************************************)
(* MetricList: [name, function, values]; values models _values.            *)
(***************************************************************************)
\* MetricList.__init__(name) with function=None and a supported name
MetricList(name) == [name |-> name, function |-> name, values |-> <<>>]

MetricList_clear(m) == [m EXCEPT !.values = <<>>]

\* a variant that keeps one score for a whole batch
MetricList_append_first(m, a, b) ==
    LET r == Apply(m.function, a, b)
    IN  IF r.err = "none"
        THEN [err |-> "none",
              m |-> [m EXCEPT !.values =
                        @ \o (IF r.val = <<>> THEN <<>> ELSE <<r.val[1]>>)]]
        ELSE [err |-> r.err, m |-> m]

\* MetricList.append: the outcome of the scoring function and the list after it
MetricList_append(m, a, b) ==
    LET r == Apply(m.function, a, b)
    IN  IF r.err = "none"
        THEN [err |-> "none", m |-> [m EXCEPT !.values = @ \o r.val]]
        ELSE [err |-> r.err, m |-> m]

MetricList_values(m) == m.values

MetricList_mean_zero(m) ==
    IF Len(m.values) = 0 THEN Ok([num |-> 0, den |-> 1])
    ELSE Ok([num |-> SumSeq(m.values), den |-> Len(m.values)])

\* MetricList.mean: sum / len, a ZeroDivisionError on an empty list
MetricList_mean(m) ==
    IF Len(m.values) = 0 THEN Raise("ZeroDivisionError")
    ELSE Ok([num |-> SumSeq(m.values), den |-> Len(m.values)])

\* equality of two fractions
SameFraction(f, num, den) == f.num * den = num * f.den

(***************************************************************************)
(* Inputs of the metric functions.                                         *)
(***************************************************************************)
\* label batches: 1-d arrays of labels, and single labels (0-d)
LabelVecs == {Vec(s) : s \in SeqsUpTo(Classes, MaxBatch)}
LabelScalars == {Scalar(c) : c \in Classes}
\* per-class scores of one sample
ScoreRows == [1 .. NumClasses -> {0, 1}]
ScoreMats == {Mat(rows, NumClasses) : rows \in SeqsUpTo(ScoreRows, MaxBatch)}
\* perturbation batches: n samples of Pixels entries each
Pixels == 1
PixelRows == [1 .. Pixels -> {0, 1}]
PertMats == {Mat(rows, Pixels) : rows \in SeqsUpTo(PixelRows, MaxBatch)}

\* the number of samples of a batch
BatchLen(a) == IF ndim(a) = 0 THEN 1 ELSE a.shape[1]

VARIABLES
    \* MetricListSpec
    metric,        \* the MetricList
    ml_ret,        \* [op, err, val]: the last call and what it returned or raised
    ml_sum,        \* sum of the scores the scoring function returned since the last clear
    ml_count,      \* number of those scores
    ml_dropped,    \* TRUE once a clear has removed accumulated scores
    ml_args,       \* AccuracySpec: the arguments of the call of the metric function
    \* LoggerSpec
    tasks, adversarial_tasks, perturbations,   \* the three groups of MetricList
    means, full,
    computational_resource_dict,               \* name -> entry (key -> value)
    logger_ret,    \* [op, err, val] of the last MetricsLogger call
    passed,        \* per group: samples passed and label matches since the last clear
    rc,            \* the resource_context scope: idle, or inside the region
    rc_last,       \* how the last scope ended
    \* Spec: one run of GTSRB._evaluate
    pc,            \* the stage the run is at
    error,         \* "none", or the exception that ended the run
    warnings,      \* the logger.warning messages emitted so far
    calls,         \* the calls made on the models and the defense, in order
    config,        \* the configuration read in every stage
    train_config,  \* the configuration read up to the training
    check_run, num_eval_batches,
    use_poison_filtering_defense,
    clean_data,    \* load_dataset(split "train"): the batches of labels
    x_train_all, y_train_all,
    poisoned_indices,
    is_clean,      \* the defense's mask, one entry per training sample
    filtered_all,  \* TRUE once the defense has marked every sample poisoned
    x_train_final, y_train_final,
    fit_args,      \* what classifier.fit was called with
    defense_fit_args,   \* what classifier_for_defense.fit was called with
    test_data,     \* load_dataset(split "test"): the batches of labels
    test_data_poison,   \* load_dataset(split "poison_test")
    batch_i,       \* position of the running evaluation loop
    validation_metric, target_class_benign_metric,
    test_metric, targeted_test_metric,
    last_pred,     \* the last predict call: its input batch and its output
    scenario_results    \* the results mapping of the run

mlVars == <<metric, ml_ret, ml_sum, ml_count, ml_dropped, ml_args>>
loggerVars == <<tasks, adversarial_tasks, perturbations, means, full,
                computational_resource_dict, logger_ret, passed, rc, rc_last>>
trainVars == <<clean_data, x_train_all, y_train_all, poisoned_indices, is_clean,
               filtered_all, x_train_final, y_train_final, fit_args,
               defense_fit_args>>
evalVars == <<test_data, test_data_poison, batch_i, validation_metric,
              target_class_benign_metric, test_metric, targeted_test_metric,
              last_pred, scenario_results>>
inputVars == <<config, train_config, check_run, num_eval_batches>>
pipeVars == <<pc, error, warnings, calls, inputVars, use_poison_filtering_defense,
              trainVars, evalVars>>
vars == <<mlVars, loggerVars, pipeVars>>

NoRet == [op |-> "init", err |-> "none", val |-> <<>>]

(***************************************************************************)
(* MetricListSpec                                                          *)
(***************************************************************************)
MLIdle ==
    /\ metric = MetricList("categorical_accuracy")
    /\ ml_ret = NoRet /\ ml_sum = 0 /\ ml_count = 0 /\ ml_dropped = FALSE
    /\ ml_args = <<>>

LoggerIdle ==
    /\ tasks = <<>> /\ adversarial_tasks = <<>> /\ perturbations = <<>>
    /\ means = TRUE /\ full = FALSE
    /\ computational_resource_dict = <<>>
    /\ logger_ret = NoRet
    /\ passed = <<>>
    /\ rc = [state |-> "idle"]
    /\ rc_last = "none"

None == "None"

\* no run of the scenario
PipeIdle ==
    /\ pc = "idle" /\ error = "none" /\ warnings = {} /\ calls = <<>>
    /\ config = None /\ train_config = None
    /\ check_run = FALSE /\ num_eval_batches = None
    /\ use_poison_filtering_defense = FALSE
    /\ clean_data = <<>> /\ x_train_all = <<>> /\ y_train_all = <<>>
    /\ poisoned_indices = <<>> /\ is_clean = <<>> /\ filtered_all = FALSE
    /\ x_train_final = <<>> /\ y_train_final = <<>> /\ fit_args = None
    /\ defense_fit_args = None
    /\ test_data = <<>> /\ test_data_poison = <<>> /\ batch_i = 0
    /\ validation_metric = None /\ target_class_benign_metric = None
    /\ test_metric = None /\ targeted_test_metric = None
    /\ last_pred = None /\ scenario_results = None

MLInit ==
    /\ \E name \in SUPPORTED_METRICS : metric = MetricList(name)
    /\ ml_ret = NoRet /\ ml_sum = 0 /\ ml_count = 0 /\ ml_dropped = FALSE
    /\ ml_args = <<>>
    /\ LoggerIdle
    /\ PipeIdle

MetricArgs(function) ==
    IF function = "categorical_accuracy"
    THEN (LabelVecs \cup LabelScalars) \X (LabelVecs \cup LabelScalars \cup ScoreMats)
    ELSE PertMats \X PertMats

MLAppend ==
    \E args \in MetricArgs(metric.function) :
        LET score == Apply(metric.function, args[1], args[2])
            r == MetricList_append(metric, args[1], args[2])
        IN  /\ Len(metric.values) + Len(score.val) <= MaxValues
            /\ metric' = r.m
            /\ ml_ret' = [op |-> "append", err |-> r.err, val |-> <<>>]
            /\ ml_sum' = ml_sum + SumSeq(score.val)
            /\ ml_count' = ml_count + Len(score.val)
            /\ UNCHANGED <<ml_dropped, ml_args, loggerVars, pipeVars>>

MLClear ==
    /\ metric' = MetricList_clear(metric)
    /\ ml_ret' = [op |-> "clear", err |-> "none", val |-> <<>>]
    /\ ml_sum' = 0 /\ ml_count' = 0
    /\ ml_dropped' = (ml_dropped \/ Len(metric.values) > 0)
    /\ UNCHANGED <<ml_args, loggerVars, pipeVars>>

MLMean ==
    LET r == MetricList_mean(metric)
    IN  /\ ml_ret' = [op |-> "mean", err |-> r.err, val |-> r.val]
        /\ UNCHANGED <<metric, ml_sum, ml_count, ml_dropped, ml_args, loggerVars,
                       pipeVars>>

MLNext == MLAppend \/ MLClear \/ MLMean

MetricListSpec == MLInit /\ [][MLNext]_vars


\* C8: mean() raises the empty-aggregate error (ZeroDivisionError) exactly when
\* no score has been accumulated since construction or the last clear, and
\* otherwise returns sum / count of the scores accumulated since then; no
\* call, clear included, changes the list's name or scoring function.
C8_MeanFailsExactlyWhenEmpty ==
    /\ [](ml_ret.op = "mean" =>
            /\ (ml_ret.err = "ZeroDivisionError") <=> (ml_count = 0)
            /\ ml_count > 0 =>
                  /\ ml_ret.err = "none"
                  /\ SameFraction(ml_ret.val, ml_sum, ml_count))
    /\ [][/\ metric'.name = metric.name
          /\ metric'.function = metric.function]_vars

\* mean() has just failed on a list that a clear emptied of earlier scores
C8_Witness ==
    /\ ml_ret.op = "mean" /\ ml_ret.err = "ZeroDivisionError"
    /\ ml_dropped /\ metric.values = <<>>


(***************************************************************************)
(* MetricsLogger and resource_context (LoggerSpec).                        *)
(***************************************************************************)
\* MetricsLogger._generate_counters: None, or one metric name
generate_counters(names) ==
    IF names = "None" THEN <<>> ELSE <<MetricList(names)>>

\* MetricsLogger._generate_counters for a list of metric names
generate_counters_list(names) == [i \in DOMAIN names |-> MetricList(names[i])]

\* the lists of names given as task
TaskLists == {<<"categorical_accuracy", "categorical_accuracy">>}

RECURSIVE AppendAll(_, _, _)
\* a variant that passes the batch to the first metric of the group only
AppendAll_first(group, a, b) ==
    IF group = <<>> THEN [err |-> "none", group |-> <<>>]
    ELSE LET r == MetricList_append(Head(group), a, b)
         IN  [err |-> r.err,
              group |-> IF r.err # "none" THEN group ELSE <<r.m>> \o Tail(group)]

\* for metric in group: metric.append(a, b) -- stops at the first that raises
AppendAll(group, a, b) ==
    IF group = <<>> THEN [err |-> "none", group |-> <<>>]
    ELSE LET r == MetricList_append(Head(group), a, b)
         IN  IF r.err # "none"
             THEN [err |-> r.err, group |-> group]
             ELSE LET rest == AppendAll(Tail(group), a, b)
                  IN  [err |-> rest.err, group |-> <<r.m>> \o rest.group]

\* positions where the label and the predicted label agree
Matches(y, p) ==
    Cardinality({i \in DOMAIN y.v \cap DOMAIN p.v : y.v[i] = p.v[i]})

NoPassed == [benign |-> [samples |-> 0, matches |-> 0],
             adversarial |-> [samples |-> 0, matches |-> 0],
             perturbation |-> [samples |-> 0, matches |-> 0]]

ScopeOrder == <<"Name", "fit">>
ScopeNames == Range(ScopeOrder)
Profilers == {"None", "Basic", "Deterministic", "cProfile"}
\* elapsed wall time of a scope, in ticks
Elapsed == {1, 2}

LoggerInit ==
    /\ \E perturbation \in {"None", "linf"} :
          /\ \/ \E task \in {"None", "categorical_accuracy"} :
                   /\ tasks = generate_counters(task)
                   /\ adversarial_tasks = generate_counters(task)
             \/ \E task \in TaskLists :
                   /\ tasks = generate_counters_list(task)
                   /\ adversarial_tasks = generate_counters_list(task)
          /\ perturbations = generate_counters(perturbation)
    /\ means \in BOOLEAN
    /\ full \in BOOLEAN
    /\ computational_resource_dict = <<>>
    /\ logger_ret = NoRet
    /\ passed = NoPassed
    /\ rc = [state |-> "idle"]
    /\ rc_last = "none"
    /\ MLIdle
    /\ PipeIdle

frame_logger_config == UNCHANGED <<means, full, mlVars, pipeVars>>

update_task_swapped(y, y_pred, adversarial) ==
    LET r == AppendAll(IF adversarial THEN tasks ELSE adversarial_tasks, y, y_pred)
    IN  /\ IF adversarial
           THEN tasks' = r.group /\ UNCHANGED adversarial_tasks
           ELSE adversarial_tasks' = r.group /\ UNCHANGED tasks
        /\ logger_ret' = [op |-> "update_task", err |-> r.err, val |-> <<>>]
        /\ UNCHANGED perturbations

update_task(y, y_pred, adversarial) ==
    LET r == AppendAll(IF adversarial THEN adversarial_tasks ELSE tasks, y, y_pred)
    IN  /\ IF adversarial
           THEN adversarial_tasks' = r.group /\ UNCHANGED tasks
           ELSE tasks' = r.group /\ UNCHANGED adversarial_tasks
        /\ logger_ret' = [op |-> "update_task", err |-> r.err, val |-> <<>>]
        /\ UNCHANGED perturbations

TotalPassed == passed.benign.samples + passed.adversarial.samples
                 + passed.perturbation.samples

UpdateTask ==
    \E y \in LabelVecs, y_pred \in LabelVecs, adversarial \in BOOLEAN :
        LET g == IF adversarial THEN "adversarial" ELSE "benign"
        IN  /\ TotalPassed + BatchLen(y) <= MaxValues
            /\ update_task(y, y_pred, adversarial)
            /\ passed' = IF logger_ret'.err = "none"
                         THEN [passed EXCEPT ![g].samples = @ + BatchLen(y),
                                             ![g].matches = @ + Matches(y, y_pred)]
                         ELSE passed
            /\ UNCHANGED <<computational_resource_dict, rc, rc_last>>
            /\ frame_logger_config

update_perturbation(x, x_adv) ==
    LET r == AppendAll(perturbations, x, x_adv)
    IN  /\ perturbations' = r.group
        /\ logger_ret' = [op |-> "update_perturbation", err |-> r.err, val |-> <<>>]
        /\ UNCHANGED <<tasks, adversarial_tasks>>

UpdatePerturbation ==
    \E x \in PertMats, x_adv \in PertMats :
        /\ TotalPassed + BatchLen(x) <= MaxValues
        /\ update_perturbation(x, x_adv)
        /\ passed' = IF logger_ret'.err = "none"
                     THEN [passed EXCEPT !.perturbation.samples = @ + BatchLen(x)]
                     ELSE passed
        /\ UNCHANGED <<computational_resource_dict, rc, rc_last>>
        /\ frame_logger_config

ClearGroup(group) == [i \in DOMAIN group |-> MetricList_clear(group[i])]

\* MetricsLogger.clear
LoggerClear ==
    /\ tasks' = ClearGroup(tasks)
    /\ adversarial_tasks' = ClearGroup(adversarial_tasks)
    /\ perturbations' = ClearGroup(perturbations)
    /\ logger_ret' = [op |-> "clear", err |-> "none", val |-> <<>>]
    /\ passed' = NoPassed
    /\ UNCHANGED <<computational_resource_dict, rc, rc_last>>
    /\ frame_logger_config


Groups == <<[metrics |-> tasks, prefix |-> "benign"],
            [metrics |-> adversarial_tasks, prefix |-> "adversarial"],
            [metrics |-> perturbations, prefix |-> "perturbation"]>>

\* the entries results() writes for the metric groups: key, kind, and where
\* the value comes from
MetricItems ==
    UNION {UNION {
        (IF full THEN {[key |-> Groups[g].prefix \o "_" \o Groups[g].metrics[i].name,
                        kind |-> "list", g |-> g, i |-> i, name |-> ""]}
                 ELSE {})
        \cup
        (IF means THEN {[key |-> Groups[g].prefix \o "_mean_" \o Groups[g].metrics[i].name,
                         kind |-> "mean", g |-> g, i |-> i, name |-> ""]}
                  ELSE {})
        : i \in DOMAIN Groups[g].metrics} : g \in DOMAIN Groups}

\* the entries results() writes for the resource ledger
LedgerItems ==
    UNION {
        LET entry == computational_resource_dict[name]
        IN  {[key |-> "Avg. CPU time (s) for " \o ToString(entry["execution_count"])
                        \o " executions of " \o name,
              kind |-> "avg", g |-> 0, i |-> 0, name |-> name]}
            \cup
            (IF "stats" \in DOMAIN entry
             THEN {[key |-> name \o " profiler stats",
                    kind |-> "stats", g |-> 0, i |-> 0, name |-> name]}
             ELSE {})
        : name \in DOMAIN computational_resource_dict}

ItemValue(item) ==
    CASE item.kind = "list" -> MetricList_values(Groups[item.g].metrics[item.i])
      [] item.kind = "mean" -> MetricList_mean(Groups[item.g].metrics[item.i]).val
      [] item.kind = "avg" ->
            [num |-> computational_resource_dict[item.name]["total_time"],
             den |-> computational_resource_dict[item.name]["execution_count"]]
      [] item.kind = "stats" -> computational_resource_dict[item.name]["stats"]

\* MetricsLogger.results: the mapping, or the error it raises
results ==
    LET emptyMean == \E it \in MetricItems :
                        /\ it.kind = "mean"
                        /\ MetricList_mean(Groups[it.g].metrics[it.i]).err # "none"
        corrupted == \E name \in DOMAIN computational_resource_dict :
                        \/ "execution_count" \notin DOMAIN computational_resource_dict[name]
                        \/ "total_time" \notin DOMAIN computational_resource_dict[name]
        items == MetricItems \cup LedgerItems
    IN  IF emptyMean THEN Raise("ZeroDivisionError")
        ELSE IF corrupted THEN Raise("ValueError")
        ELSE Ok([k \in {it.key : it \in items} |->
                    \* a key written twice keeps the value written last
                    ItemValue(CHOOSE it \in items :
                                 /\ it.key = k
                                 /\ \A o \in items : o.key = k => o.i <= it.i)])

LoggerResults ==
    /\ logger_ret' = [op |-> "results", err |-> results.err, val |-> results.val]
    /\ UNCHANGED <<tasks, adversarial_tasks, perturbations, passed,
                   computational_resource_dict, rc, rc_last>>
    /\ frame_logger_config

(***************************************************************************)
(* resource_context: entering the scope, and the two ways of leaving it.   *)
(***************************************************************************)
ExecCount(name) ==
    IF name \in DOMAIN computational_resource_dict
    THEN computational_resource_dict[name]["execution_count"]
    ELSE 0

TotalTime(name) ==
    IF name \in DOMAIN computational_resource_dict
    THEN computational_resource_dict[name]["total_time"]
    ELSE 0

\* the code up to the yield
ResourceEnter ==
    \E name \in ScopeNames, profiler \in Profilers :
        /\ rc.state = "idle"
        /\ SumSeq([i \in 1 .. 2 |-> ExecCount(ScopeOrder[i])]) < MaxExec
        /\ IF profiler \in {"None", "Basic", "Deterministic"}
           THEN /\ rc' = [state |-> "region", name |-> name, profiler |-> profiler]
                /\ rc_last' = "none"
           ELSE /\ rc' = rc             \* ValueError before the yield
                /\ rc_last' = "ValueError"
        /\ UNCHANGED <<tasks, adversarial_tasks, perturbations, passed,
                       computational_resource_dict, logger_ret>>
        /\ frame_logger_config

StrStats(text) == [str |-> TRUE, text |-> text]
IntStats == [str |-> FALSE, text |-> <<>>]

\* the ledger after the code that follows the yield, and whether
\* comp["stats"] += stats raised (it adds a str to the defaultdict's 0)
LedgerAfterExit(name, profiler, elapsedTime) ==
    LET d == computational_resource_dict
        fresh == IF profiler = "Deterministic"
                 THEN [k \in {"stats"} |-> StrStats(<<>>)]
                 ELSE <<>>
        e0 == IF name \in DOMAIN d THEN d[name] ELSE fresh
        get(e, k) == IF k \in DOMAIN e THEN e[k] ELSE 0
        put(e, k, val) == [j \in DOMAIN e \cup {k} |-> IF j = k THEN val ELSE e[j]]
        e1 == put(e0, "execution_count", get(e0, "execution_count") + 1)
        e2 == put(e1, "total_time", get(e1, "total_time") + elapsedTime)
        hasStr == "stats" \in DOMAIN e2 /\ e2["stats"].str
        e3 == IF profiler # "Deterministic" THEN e2
              ELSE IF hasStr
                   THEN put(e2, "stats", StrStats(e2["stats"].text \o <<"profile">>))
                   ELSE put(e2, "stats", IntStats)
    IN  [dict |-> [n \in DOMAIN d \cup {name} |-> IF n = name THEN e3 ELSE d[n]],
         err |-> IF profiler = "Deterministic" /\ ~hasStr THEN "TypeError" ELSE "none"]

\* the region ends normally: the generator resumes after the yield
ResourceExit ==
    \E elapsedTime \in Elapsed :
        /\ rc.state = "region"
        /\ IF rc.profiler = "None"
           THEN /\ UNCHANGED computational_resource_dict
                /\ rc_last' = "returned"
           ELSE LET r == LedgerAfterExit(rc.name, rc.profiler, elapsedTime)
                IN  /\ computational_resource_dict' = r.dict
                    /\ rc_last' = IF r.err = "none" THEN "returned" ELSE r.err
        /\ rc' = [state |-> "idle"]
        /\ UNCHANGED <<tasks, adversarial_tasks, perturbations, passed, logger_ret>>
        /\ frame_logger_config

\* the region raises: the exception is thrown into the generator at the
\* yield, which has no try/finally, so nothing after the yield runs
ResourceError ==
    /\ rc.state = "region"
    /\ rc' = [state |-> "idle"]
    /\ rc_last' = "raised"
    /\ UNCHANGED <<tasks, adversarial_tasks, perturbations, passed, logger_ret,
                   computational_resource_dict>>
    /\ frame_logger_config

LoggerNext ==
    \/ UpdateTask
    \/ UpdatePerturbation
    \/ LoggerClear
    \/ LoggerResults

LoggerSpec == LoggerInit /\ [][LoggerNext]_vars

ProfilerNext ==
    \/ ResourceEnter
    \/ ResourceExit
    \/ ResourceError
    \/ LoggerResults

ProfilerSpec == LoggerInit /\ [][ProfilerNext]_vars


(***************************************************************************)
(* Claims about MetricsLogger (LoggerSpec).                                *)
(***************************************************************************)
BenignMeanKey == "benign_mean_categorical_accuracy"

\* results() has just returned or raised, for a logger built with
\* task="categorical_accuracy", means=True and the other arguments default
C1_Case ==
    /\ tasks # <<>> /\ means /\ ~full /\ perturbations = <<>>
    /\ logger_ret.op = "results"

\* C1 as stated: after benign update_task calls only, results() returns a
\* mapping whose benign_mean_categorical_accuracy is matches / samples.
C1_BenignOnlyResults ==
    (C1_Case /\ passed.benign.samples > 0 /\ passed.adversarial.samples = 0)
        => /\ logger_ret.err = "none"
           /\ BenignMeanKey \in DOMAIN logger_ret.val
           /\ SameFraction(logger_ret.val[BenignMeanKey],
                           passed.benign.matches, passed.benign.samples)

\* C1 amended: with means=True and the categorical_accuracy task, results()
\* returns a mapping exactly when every group that has a metric has been
\* passed at least one sample (the adversarial group included) and raises
\* ZeroDivisionError otherwise; when it returns, the benign mean is
\* (positions where y equals y_pred) / (benign samples passed).
C1_BenignMeanWhenAllGroupsFed ==
    (tasks # <<>> /\ means /\ logger_ret.op = "results")
        => /\ (logger_ret.err = "none") <=>
                  /\ passed.benign.samples > 0
                  /\ passed.adversarial.samples > 0
                  /\ perturbations # <<>> => passed.perturbation.samples > 0
           /\ logger_ret.err = "none" =>
                  /\ BenignMeanKey \in DOMAIN logger_ret.val
                  /\ SameFraction(logger_ret.val[BenignMeanKey],
                                  passed.benign.matches, passed.benign.samples)
           /\ logger_ret.err # "none" => logger_ret.err = "ZeroDivisionError"

\* results() returns 2/3 as the benign mean of three samples, two matching
C1_Witness ==
    /\ C1_Case /\ logger_ret.err = "none"
    /\ passed.benign.samples = 3 /\ passed.benign.matches = 2
    /\ logger_ret.val[BenignMeanKey] = [num |-> 2, den |-> 3]

GroupName(g) == <<"benign", "adversarial", "perturbation">>[g]

Added(g) == passed'[g].samples - passed[g].samples

\* every MetricList of the group got d more scores behind the ones it had
ExtendedBy(old, new, d) ==
    /\ DOMAIN new = DOMAIN old
    /\ \A i \in DOMAIN old :
          /\ new[i].name = old[i].name /\ new[i].function = old[i].function
          /\ Len(new[i].values) = Len(old[i].values) + d
          /\ SubSeq(new[i].values, 1, Len(old[i].values)) = old[i].values

\* C13: update_task changes neither the perturbation group nor the ledger
\* and at most one of the two task groups: a benign update extends every
\* MetricList of the benign group and leaves the adversarial group alone,
\* an adversarial update the other way round; update_perturbation extends
\* every MetricList of the perturbation group and changes nothing else.
C13_GroupsIndependent ==
    [][/\ logger_ret'.op = "update_task" =>
            /\ perturbations' = perturbations
            /\ computational_resource_dict' = computational_resource_dict
            /\ tasks' = tasks \/ adversarial_tasks' = adversarial_tasks
            /\ Added("benign") > 0 =>
                  /\ adversarial_tasks' = adversarial_tasks
                  /\ ExtendedBy(tasks, tasks', Added("benign"))
            /\ Added("adversarial") > 0 =>
                  /\ tasks' = tasks
                  /\ ExtendedBy(adversarial_tasks, adversarial_tasks',
                                Added("adversarial"))
       /\ logger_ret'.op = "update_perturbation" =>
            /\ tasks' = tasks /\ adversarial_tasks' = adversarial_tasks
            /\ computational_resource_dict' = computational_resource_dict
            /\ Added("perturbation") > 0 =>
                  ExtendedBy(perturbations, perturbations', Added("perturbation"))]_vars

\* a benign update has just returned: both metrics of the benign group hold
\* its scores, the adversarial group holds none, the perturbation group its own
C13_Witness ==
    /\ logger_ret.op = "update_task" /\ logger_ret.err = "none"
    /\ Len(tasks) = 2 /\ Len(tasks[1].values) = 2 /\ tasks[2].values = tasks[1].values
    /\ \A i \in DOMAIN adversarial_tasks : adversarial_tasks[i].values = <<>>
    /\ perturbations # <<>> /\ Len(perturbations[1].values) = 1
    /\ passed.benign.samples = 2 /\ passed.perturbation.samples = 1

(***************************************************************************)
(* Claims about resource_context (ProfilerSpec).                           *)
(***************************************************************************)
\* C2 as stated: every exit from a Basic or Deterministic scope, an exit by
\* an error included, adds 1 to the entry's execution_count and the elapsed
\* time to its total_time, and for Deterministic appends the profiler text.
C2_EveryExitUpdatesLedger ==
    [][(rc.state = "region" /\ rc.profiler \in {"Basic", "Deterministic"}
          /\ rc'.state = "idle") =>
        LET n == rc.name
            old == IF n \in DOMAIN computational_resource_dict
                   THEN computational_resource_dict[n] ELSE <<>>
        IN  /\ n \in DOMAIN computational_resource_dict'
            /\ computational_resource_dict'[n]["execution_count"] = ExecCount(n) + 1
            /\ \E e \in Elapsed :
                  computational_resource_dict'[n]["total_time"] = TotalTime(n) + e
            /\ rc.profiler = "Deterministic" =>
                  /\ computational_resource_dict'[n]["stats"].str
                  /\ Len(computational_resource_dict'[n]["stats"].text) =
                        1 + (IF "stats" \in DOMAIN old /\ old["stats"].str
                             THEN Len(old["stats"].text) ELSE 0)]_vars


(***************************************************************************)
(* The GTSRB poisoning scenario (Spec).                                    *)
(*                                                                         *)
(* An image is [origin, id, trig, axes]: the split it comes from, its      *)
(* position there, whether the backdoor trigger has been added, and the    *)
(* order of its axes.  Indices into a data set are positions 1 .. n.       *)
(***************************************************************************)
\* dataset batch_size of the configuration
batch_size == 2
\* largest num_images_target_class of the configuration
MaxPoolImages == 1
\* longest test set
MaxTest == 3

Img(origin, id) == [origin |-> origin, id |-> id, trig |-> FALSE,
                    axes |-> <<"W", "H", "C">>]

\* np.transpose(img, perm), perm given 0-based as in the code
transpose(img, perm) ==
    [img EXCEPT !.axes = [i \in 1 .. 3 |-> img.axes[perm[i] + 1]]]

\* attack.poison(img, [tgt]): the image with the trigger, and the label
attack_poison(img, tgt) == [x |-> [img EXCEPT !.trig = TRUE], y |-> tgt]

InIndices(idx, indices) == \E k \in DOMAIN indices : indices[k] = idx

\* a variant that triggers every sample of the source class
poison_dataset_whole_class(src_imgs, src_lbls, src, tgt, ds_size, poisoned) ==
    [x |-> [idx \in 1 .. ds_size |->
               IF src_lbls[idx] = src
               THEN transpose(attack_poison(transpose(src_imgs[idx], <<2, 0, 1>>), tgt).x,
                              <<1, 2, 0>>)
               ELSE src_imgs[idx]],
     y |-> [idx \in 1 .. ds_size |-> IF src_lbls[idx] = src THEN tgt ELSE src_lbls[idx]]]

\* poison_dataset: the images and the labels it returns
poison_dataset(src_imgs, src_lbls, src, tgt, ds_size, poisoned) ==
    LET hit(idx) == src_lbls[idx] = src /\ InIndices(idx, poisoned)
        p(idx) == attack_poison(transpose(src_imgs[idx], <<2, 0, 1>>), tgt)
    IN  [x |-> [idx \in 1 .. ds_size |->
                   IF hit(idx) THEN transpose(p(idx).x, <<1, 2, 0>>)
                   ELSE src_imgs[idx]],
         y |-> [idx \in 1 .. ds_size |->
                   IF hit(idx) THEN p(idx).y ELSE src_lbls[idx]]]

RECURSIVE Chunks(_, _)
\* a data set as the batches of at most n samples the provider yields
Chunks(s, n) ==
    IF Len(s) <= n THEN (IF s = <<>> THEN <<>> ELSE <<s>>)
    ELSE <<SubSeq(s, 1, n)>> \o Chunks(SubSeq(s, n + 1, Len(s)), n)

\* fraction_poisoned values of the configuration
Fractions == {[num |-> 0, den |-> 1], [num |-> 1, den |-> 2], [num |-> 1, den |-> 1]}

\* int(fraction * n)
IntOfProduct(fraction, n) == (fraction.num * n) \div fraction.den

\* the keys read in every stage: attack.type and adhoc.*
Configs ==
    [attack_type : {"preloaded", "backdoor"},
     poison_dataset : BOOLEAN,
     source_class : Classes,
     target_class : Classes]

\* the adhoc keys read only up to the training
TrainConfigs ==
    [fraction_poisoned : Fractions,
     use_poison_filtering_defense : BOOLEAN,
     num_images_target_class : 1 .. MaxPoolImages]

TrainSets == {Chunks(s, batch_size) : s \in SeqsUpTo(Classes, MaxTrain) \ {<<>>}}
TestSets == {Chunks(s, batch_size) : s \in SeqsUpTo(Classes, MaxTest) \ {<<>>}}
PoisonTestSets == {Chunks(s, batch_size) : s \in SeqsUpTo(Classes, MaxPoolImages)}

Init ==
    /\ pc = "start" /\ error = "none" /\ warnings = {} /\ calls = <<>>
    /\ config \in Configs
    /\ train_config \in TrainConfigs
    /\ check_run \in BOOLEAN
    /\ num_eval_batches \in {None, "1"}
    /\ use_poison_filtering_defense = FALSE
    /\ clean_data = <<>> /\ x_train_all = <<>> /\ y_train_all = <<>>
    /\ poisoned_indices = <<>> /\ is_clean = <<>> /\ filtered_all = FALSE
    /\ x_train_final = <<>> /\ y_train_final = <<>> /\ fit_args = None
    /\ defense_fit_args = None
    /\ test_data = <<>> /\ test_data_poison = <<>> /\ batch_i = 0
    /\ validation_metric = None /\ target_class_benign_metric = None
    /\ test_metric = None /\ targeted_test_metric = None
    /\ last_pred = None /\ scenario_results = None
    /\ MLIdle /\ LoggerIdle

Fail(e) == pc' = "failed" /\ error' = e

frame_other == UNCHANGED <<mlVars, loggerVars, config, num_eval_batches>>
frame_train_config == UNCHANGED <<train_config, check_run>>

\* lines 61-94: the num_eval_batches check, the configuration, the defense
\* switch and the clean training data
Start ==
    /\ pc = "start"
    /\ IF num_eval_batches # None
       THEN /\ Fail("ValueError")
            /\ UNCHANGED <<use_poison_filtering_defense, clean_data>>
       ELSE /\ pc' = "attack"
            /\ use_poison_filtering_defense' =
                  (IF check_run THEN FALSE ELSE train_config.use_poison_filtering_defense)
            /\ clean_data' \in TrainSets
            /\ UNCHANGED error
    /\ UNCHANGED <<warnings, calls, x_train_all, y_train_all, poisoned_indices,
                   is_clean, filtered_all, x_train_final, y_train_final, fit_args,
                   defense_fit_args,
                   evalVars>>
    /\ frame_other /\ frame_train_config

num_poisoned ==
    IntOfProduct(train_config.fraction_poisoned, train_config.num_images_target_class)

\* lines 96-117: the preloaded attack needs at least one poisoned image
LoadAttack ==
    /\ pc = "attack"
    /\ IF config.attack_type = "preloaded" /\ num_poisoned = 0
       THEN Fail("ValueError")
       ELSE pc' = "build" /\ UNCHANGED error
    /\ UNCHANGED <<warnings, calls, use_poison_filtering_defense, trainVars, evalVars>>
    /\ frame_other /\ frame_train_config

\* the images of the clean training set, batch by batch
CleanImages == LET n == Len(Concat(clean_data))
               IN  Chunks([i \in 1 .. n |-> Img("train", i)], batch_size)

\* poison_data.get_batch(): num_poisoned images of the pool, labelled with
\* the target class
PoisonBatchX(b) == [k \in 1 .. num_poisoned |-> Img("poison", (b - 1) * num_poisoned + k)]
PoisonBatchY == [k \in 1 .. num_poisoned |-> config.target_class]

\* lines 124-140: the in-memory training set
BuildTrain ==
    /\ pc = "build"
    /\ IF config.attack_type = "preloaded"
       THEN /\ x_train_all' = Concat([b \in DOMAIN clean_data |->
                                        CleanImages[b] \o PoisonBatchX(b)])
            /\ y_train_all' = Concat([b \in DOMAIN clean_data |->
                                        clean_data[b] \o PoisonBatchY])
            /\ pc' = "defense"
       ELSE /\ x_train_all' = Concat(CleanImages)
            /\ y_train_all' = Concat(clean_data)
            /\ pc' = IF config.poison_dataset THEN "select" ELSE "defense"
    /\ UNCHANGED <<error, warnings, calls, use_poison_filtering_defense, clean_data,
                   poisoned_indices, is_clean, filtered_all, x_train_final,
                   y_train_final, fit_args, defense_fit_args, evalVars>>
    /\ frame_other /\ frame_train_config

\* np.bincount(y): one count per label 0 .. max(y)
bincount(y) == [c \in 1 .. (IF y = <<>> THEN 0 ELSE MaxSeq(y) + 1) |->
                   Cardinality({i \in DOMAIN y : y[i] = c - 1})]

\* np.where(y == c)[0]: the positions of the label c, ascending
RECURSIVE where_eq(_, _, _)
where_eq(y, c, k) ==
    IF k > Len(y) THEN <<>>
    ELSE (IF y[k] = c THEN <<k>> ELSE <<>>) \o where_eq(y, c, k + 1)

\* a variant that draws with replacement
random_choice_replace(a, size) == [1 .. size -> Range(a)]

\* np.random.choice(a, size, replace=False): the arrays it can return
random_choice(a, size) == {s \in [1 .. size -> Range(a)] : IsInjective(s)}

\* lines 141-151: the number of samples to poison and their indices
SelectPoison ==
    /\ pc = "select"
    /\ IF config.source_class + 1 \notin DOMAIN bincount(y_train_all)
       THEN /\ Fail("IndexError")
            /\ UNCHANGED <<warnings, poisoned_indices>>
       ELSE LET total_count == bincount(y_train_all)[config.source_class + 1]
                poison_count == IntOfProduct(train_config.fraction_poisoned, total_count)
                src_indices == where_eq(y_train_all, config.source_class, 1)
            IN  /\ warnings' = IF poison_count = 0
                               THEN warnings \cup {"No poisons generated"}
                               ELSE warnings
                /\ poisoned_indices' \in random_choice(src_indices, poison_count)
                /\ pc' = "poison"
                /\ UNCHANGED error
    /\ UNCHANGED <<calls, use_poison_filtering_defense, clean_data, x_train_all,
                   y_train_all, is_clean, filtered_all, x_train_final, y_train_final,
                   fit_args, defense_fit_args, evalVars>>
    /\ frame_other /\ frame_train_config

\* lines 152-160: the poisoned training set
ApplyPoison ==
    /\ pc = "poison"
    /\ LET r == poison_dataset(x_train_all, y_train_all, config.source_class,
                               config.target_class, Len(y_train_all), poisoned_indices)
       IN  x_train_all' = r.x /\ y_train_all' = r.y
    /\ pc' = "defense"
    /\ UNCHANGED <<error, warnings, calls, use_poison_filtering_defense, clean_data,
                   poisoned_indices, is_clean, filtered_all, x_train_final,
                   y_train_final, fit_args, defense_fit_args, evalVars>>
    /\ frame_other /\ frame_train_config


\* to_categorical(y): one row per label, max(y) + 1 columns
to_categorical(y) ==
    LET k == IF y = <<>> THEN 0 ELSE MaxSeq(y) + 1
    IN  [i \in DOMAIN y |-> [c \in 1 .. k |-> Bool01(y[i] = c - 1)]]

\* a variant that keeps the samples the mask marks poisoned
filter_clean_inverted(a, mask) ==
    SelectIdx(a, [i \in DOMAIN mask |-> mask[i] # 1], 1)

\* lines 193-195: a[is_clean == 1], the entries the mask marks clean
filter_clean(a, mask) ==
    SelectIdx(a, [i \in DOMAIN mask |-> mask[i] = 1], 1)

\* lines 162-201: the filtering defense, or all the data
DefenseFilter ==
    /\ pc = "defense"
    /\ LET y_train_all_categorical == to_categorical(y_train_all)
       IN  IF use_poison_filtering_defense
           THEN /\ is_clean' \in [DOMAIN x_train_all -> {0, 1}]
                /\ calls' = calls \o
                      <<"classifier_for_defense.fit", "defense.detect_poison">>
                /\ defense_fit_args' = [x |-> x_train_all, y |-> y_train_all_categorical]
                /\ x_train_final' = filter_clean(x_train_all, is_clean')
                /\ y_train_final' = filter_clean(y_train_all_categorical, is_clean')
                /\ filtered_all' = (\A i \in DOMAIN is_clean' : is_clean'[i] = 0)
           ELSE /\ x_train_final' = x_train_all
                /\ y_train_final' = y_train_all_categorical
                /\ UNCHANGED <<is_clean, calls, filtered_all, defense_fit_args>>
    /\ pc' = "train"
    /\ UNCHANGED <<error, warnings, use_poison_filtering_defense, clean_data,
                   x_train_all, y_train_all, poisoned_indices, fit_args, evalVars>>
    /\ frame_other /\ frame_train_config

\* a variant that fits whatever the length of the data
FitOrSkip_always(x, y) ==
    /\ calls' = calls \o <<"classifier.fit">>
    /\ fit_args' = [x |-> x, y |-> y]
    /\ UNCHANGED warnings

\* lines 202-214: fit on the final training set, or skip with a warning
FitOrSkip(x, y) ==
    IF Len(x) # 0
    THEN /\ calls' = calls \o <<"classifier.fit">>
         /\ fit_args' = [x |-> x, y |-> y]
         /\ UNCHANGED warnings
    ELSE /\ warnings' = warnings \cup {"All data points filtered by defense"}
         /\ UNCHANGED <<calls, fit_args>>

Train ==
    /\ pc = "train"
    /\ FitOrSkip(x_train_final, y_train_final)
    /\ pc' = "loadtest"
    /\ UNCHANGED <<error, use_poison_filtering_defense, clean_data, x_train_all,
                   y_train_all, poisoned_indices, is_clean, filtered_all,
                   x_train_final, y_train_final, defense_fit_args, evalVars>>
    /\ frame_other /\ frame_train_config

\* lines 216-226: the clean test data and the two clean metrics.  From here
\* on the run reads none of the values of the training stage: the model
\* drops them.
LoadTest ==
    /\ pc = "loadtest"
    /\ train_config' = None /\ check_run' = None
    /\ use_poison_filtering_defense' = None
    /\ clean_data' = <<>> /\ x_train_all' = <<>> /\ y_train_all' = <<>>
    /\ poisoned_indices' = <<>> /\ is_clean' = <<>>
    /\ x_train_final' = <<>> /\ y_train_final' = <<>> /\ fit_args' = None
    /\ defense_fit_args' = None
    /\ UNCHANGED filtered_all
    /\ test_data' \in TestSets
    /\ validation_metric' = MetricList("categorical_accuracy")
    /\ target_class_benign_metric' = MetricList("categorical_accuracy")
    /\ batch_i' = 1
    /\ pc' = "evalclean"
    /\ UNCHANGED <<error, warnings, calls, test_data_poison, test_metric,
                   targeted_test_metric, last_pred, scenario_results>>
    /\ frame_other

\* the images of batch b of the test split
RECURSIVE Before(_, _)
Before(data, b) == IF b = 1 THEN 0 ELSE Len(data[b - 1]) + Before(data, b - 1)
TestImages(b) == [k \in 1 .. Len(test_data[b]) |-> Img("test", Before(test_data, b) + k)]
PoisonTestImages(b) ==
    [k \in 1 .. Len(test_data_poison[b]) |->
        [Img("poison_test", Before(test_data_poison, b) + k) EXCEPT !.trig = TRUE]]

\* classifier.predict(x): one row of scores per sample, one class on top
OneHotRows == {[c \in 1 .. NumClasses |-> Bool01(c = k)] : k \in 1 .. NumClasses}
Predictions(x) == {Mat(rows, NumClasses) : rows \in [DOMAIN x -> OneHotRows]}

\* a variant that keeps every row
RowsWhere_all(y_pred, y, c) == y_pred

\* y_pred[y == c]: the rows of the samples labelled c
RowsWhere(y_pred, y, c) ==
    LET rows == SelectIdx(y_pred.v, [i \in DOMAIN y |-> y[i] = c], 1)
    IN  Mat(rows, y_pred.shape[2])

Repeat(c, n) == Vec([i \in 1 .. n |-> c])

\* lines 227-234: one batch of the clean validation loop
EvalCleanBatch ==
    /\ pc = "evalclean" /\ batch_i <= Len(test_data)
    /\ LET x == TestImages(batch_i)
           y == test_data[batch_i]
       IN  \E y_pred \in Predictions(x) :
            LET v == MetricList_append(validation_metric, Vec(y), y_pred)
                y_pred_tgt_class == RowsWhere(y_pred, y, config.source_class)
                n == BatchLen(y_pred_tgt_class)
                t == IF n # 0
                     THEN MetricList_append(target_class_benign_metric,
                                            Repeat(config.source_class, n),
                                            y_pred_tgt_class)
                     ELSE [err |-> "none", m |-> target_class_benign_metric]
            IN  /\ calls' = calls \o <<"classifier.predict">>
                /\ last_pred' = [stage |-> "clean", x |-> x, y |-> y, y_pred |-> y_pred]
                /\ validation_metric' = v.m
                /\ target_class_benign_metric' = t.m
                /\ IF v.err # "none" \/ t.err # "none"
                   THEN /\ Fail(IF v.err # "none" THEN v.err ELSE t.err)
                        /\ UNCHANGED batch_i
                   ELSE /\ batch_i' = batch_i + 1
                        /\ UNCHANGED <<pc, error>>
    /\ UNCHANGED <<warnings, use_poison_filtering_defense, trainVars, test_data,
                   test_data_poison, test_metric, targeted_test_metric,
                   scenario_results>>
    /\ frame_other /\ frame_train_config

Poisoning == config.poison_dataset \/ config.attack_type = "preloaded"

\* lines 235-254: the clean results, the two metrics of the poisoned test
\* and, for the preloaded attack, the poisoned test data
EvalCleanDone ==
    /\ pc = "evalclean" /\ batch_i > Len(test_data)
    /\ LET v == MetricList_mean(validation_metric)
           t == MetricList_mean(target_class_benign_metric)
       IN  IF v.err # "none" \/ t.err # "none"
           THEN /\ Fail(IF v.err # "none" THEN v.err ELSE t.err)
                /\ UNCHANGED <<scenario_results, test_metric, targeted_test_metric,
                               test_data_poison, batch_i>>
           ELSE /\ scenario_results' =
                      [k \in {"validation_accuracy", "validation_accuracy_targeted_class"}
                          |-> IF k = "validation_accuracy" THEN v.val ELSE t.val]
                /\ test_metric' = MetricList("categorical_accuracy")
                /\ targeted_test_metric' = MetricList("categorical_accuracy")
                /\ IF config.attack_type = "preloaded"
                   THEN test_data_poison' \in PoisonTestSets /\ pc' = "poisontest"
                   ELSE /\ UNCHANGED test_data_poison
                        /\ pc' = IF config.poison_dataset THEN "triggertest" ELSE "finish"
                /\ batch_i' = 1
                /\ UNCHANGED error
    /\ UNCHANGED <<warnings, calls, use_poison_filtering_defense, trainVars, test_data,
                   validation_metric, target_class_benign_metric, last_pred>>
    /\ frame_other /\ frame_train_config


\* lines 255-262: one batch of the preloaded poisoned test data
PoisonTestBatch ==
    /\ pc = "poisontest" /\ batch_i <= Len(test_data_poison)
    /\ LET x_poison_test == PoisonTestImages(batch_i)
           y_poison_test == test_data_poison[batch_i]
       IN  \E y_pred \in Predictions(x_poison_test) :
            LET y_true == Repeat(config.source_class, BatchLen(y_pred))
                g == MetricList_append(targeted_test_metric, Vec(y_poison_test), y_pred)
                t == MetricList_append(test_metric, y_true, y_pred)
            IN  /\ calls' = calls \o <<"classifier.predict">>
                /\ last_pred' = [stage |-> "poison_test", x |-> x_poison_test,
                                 y |-> y_poison_test, y_pred |-> y_pred]
                /\ targeted_test_metric' = g.m
                /\ test_metric' = t.m
                /\ IF g.err # "none" \/ t.err # "none"
                   THEN /\ Fail(IF g.err # "none" THEN g.err ELSE t.err)
                        /\ UNCHANGED batch_i
                   ELSE /\ batch_i' = batch_i + 1
                        /\ UNCHANGED <<pc, error>>
    /\ UNCHANGED <<warnings, use_poison_filtering_defense, trainVars, test_data,
                   test_data_poison, validation_metric, target_class_benign_metric,
                   scenario_results>>
    /\ frame_other /\ frame_train_config

\* lines 263-269: the clean test data again
PoisonTestDone ==
    /\ pc = "poisontest" /\ batch_i > Len(test_data_poison)
    /\ pc' = "cleantest"
    /\ batch_i' = 1
    /\ UNCHANGED <<error, warnings, calls, use_poison_filtering_defense, trainVars,
                   test_data, test_data_poison, validation_metric,
                   target_class_benign_metric, test_metric, targeted_test_metric,
                   last_pred, scenario_results>>
    /\ frame_other /\ frame_train_config

\* lines 270-275: one batch of the clean test data of the preloaded attack
CleanTestBatch ==
    /\ pc = "cleantest" /\ batch_i <= Len(test_data)
    /\ LET x_clean_test == TestImages(batch_i)
           y_clean_test == test_data[batch_i]
       IN  \E y_pred \in Predictions(x_clean_test) :
            LET t == MetricList_append(test_metric, Vec(y_clean_test), y_pred)
            IN  /\ calls' = calls \o <<"classifier.predict">>
                /\ last_pred' = [stage |-> "clean_test", x |-> x_clean_test,
                                 y |-> y_clean_test, y_pred |-> y_pred]
                /\ test_metric' = t.m
                /\ IF t.err # "none"
                   THEN Fail(t.err) /\ UNCHANGED batch_i
                   ELSE batch_i' = batch_i + 1 /\ UNCHANGED <<pc, error>>
    /\ UNCHANGED <<warnings, use_poison_filtering_defense, trainVars, test_data,
                   test_data_poison, validation_metric, target_class_benign_metric,
                   targeted_test_metric, scenario_results>>
    /\ frame_other /\ frame_train_config

\* lines 286-306: one batch of the test data with the trigger on the whole
\* source class
TriggerTestBatch ==
    /\ pc = "triggertest" /\ batch_i <= Len(test_data)
    /\ LET y_test == test_data[batch_i]
           src_indices == where_eq(y_test, config.source_class, 1)
           x_test == poison_dataset(TestImages(batch_i), y_test, config.source_class,
                                    config.target_class, Len(y_test), src_indices).x
       IN  \E y_pred \in Predictions(x_test) :
            LET t == MetricList_append(test_metric, Vec(y_test), y_pred)
                y_pred_targeted == RowsWhere(y_pred, y_test, config.source_class)
                n == BatchLen(y_pred_targeted)
                g == IF n = 0 \/ t.err # "none"
                     THEN [err |-> "none", m |-> targeted_test_metric]
                     ELSE MetricList_append(targeted_test_metric,
                                            Repeat(config.target_class, n),
                                            y_pred_targeted)
            IN  /\ calls' = calls \o <<"classifier.predict">>
                /\ last_pred' = [stage |-> "trigger_test", x |-> x_test,
                                 y |-> y_test, y_pred |-> y_pred]
                /\ test_metric' = t.m
                /\ targeted_test_metric' = g.m
                /\ IF t.err # "none" \/ g.err # "none"
                   THEN /\ Fail(IF t.err # "none" THEN t.err ELSE g.err)
                        /\ UNCHANGED batch_i
                   ELSE /\ batch_i' = batch_i + 1
                        /\ UNCHANGED <<pc, error>>
    /\ UNCHANGED <<warnings, use_poison_filtering_defense, trainVars, test_data,
                   test_data_poison, validation_metric, target_class_benign_metric,
                   scenario_results>>
    /\ frame_other /\ frame_train_config

\* the loop over the test data has ended
TestLoopDone ==
    /\ pc \in {"cleantest", "triggertest"} /\ batch_i > Len(test_data)
    /\ pc' = "finish"
    /\ UNCHANGED <<error, warnings, calls, use_poison_filtering_defense, trainVars,
                   evalVars>>
    /\ frame_other /\ frame_train_config

\* a variant that reports the poisoned-test metrics in every run, as 0 when
\* there is none
FinishResults_zeroed ==
    LET zero == [num |-> 0, den |-> 1]
        t == IF Poisoning THEN MetricList_mean(test_metric) ELSE Ok(zero)
        g == IF Poisoning THEN MetricList_mean(targeted_test_metric) ELSE Ok(zero)
    IN  IF t.err # "none" \/ g.err # "none"
        THEN Raise(IF t.err # "none" THEN t.err ELSE g.err)
        ELSE Ok([k \in DOMAIN scenario_results
                        \cup {"test_accuracy", "targeted_misclassification_accuracy"} |->
                   IF k = "test_accuracy" THEN t.val
                   ELSE IF k = "targeted_misclassification_accuracy" THEN g.val
                   ELSE scenario_results[k]])

\* lines 308-316: the mapping the run returns, or the error of a mean
FinishResults ==
    IF Poisoning
    THEN LET t == MetricList_mean(test_metric)
             g == MetricList_mean(targeted_test_metric)
         IN  IF t.err # "none" \/ g.err # "none"
             THEN Raise(IF t.err # "none" THEN t.err ELSE g.err)
             ELSE Ok([k \in DOMAIN scenario_results
                             \cup {"test_accuracy", "targeted_misclassification_accuracy"} |->
                        IF k = "test_accuracy" THEN t.val
                        ELSE IF k = "targeted_misclassification_accuracy" THEN g.val
                        ELSE scenario_results[k]])
    ELSE Ok(scenario_results)

Finish ==
    /\ pc = "finish"
    /\ IF FinishResults.err # "none"
       THEN Fail(FinishResults.err) /\ UNCHANGED scenario_results
       ELSE /\ scenario_results' = FinishResults.val
            /\ pc' = "done"
            /\ UNCHANGED error
    /\ UNCHANGED <<warnings, calls, use_poison_filtering_defense, trainVars, test_data,
                   test_data_poison, batch_i, validation_metric,
                   target_class_benign_metric, test_metric, targeted_test_metric,
                   last_pred>>
    /\ frame_other /\ frame_train_config

Next ==
    \/ Start
    \/ LoadAttack
    \/ BuildTrain
    \/ SelectPoison
    \/ ApplyPoison
    \/ DefenseFilter
    \/ Train
    \/ LoadTest
    \/ EvalCleanBatch
    \/ EvalCleanDone
    \/ PoisonTestBatch
    \/ PoisonTestDone
    \/ CleanTestBatch
    \/ TriggerTestBatch
    \/ TestLoopDone
    \/ Finish

Spec == Init /\ [][Next]_vars


(***************************************************************************)
(* Claims about the scenario (Spec).                                       *)
(***************************************************************************)
\* the run poisons the training set itself
SelfPoisoning == config.attack_type # "preloaded" /\ config.poison_dataset

CleanLabels == Concat(clean_data)
SourcePositions(y) == {i \in DOMAIN y : y[i] = config.source_class}

\* floor(fraction * n), stated without the division
IsFloorOfProduct(k, fraction, n) ==
    /\ k * fraction.den <= fraction.num * n
    /\ fraction.num * n < (k + 1) * fraction.den

\* C3: the selected poisoned indices are distinct, all of the source class,
\* and floor(fraction_poisoned * count(label == source_class)) many.
C3_PoisonedIndexSet ==
    (pc = "poison" /\ SelfPoisoning) =>
        /\ IsInjective(poisoned_indices)
        /\ Range(poisoned_indices) \subseteq SourcePositions(y_train_all)
        /\ IsFloorOfProduct(Len(poisoned_indices), train_config.fraction_poisoned,
                            Cardinality(SourcePositions(y_train_all)))

\* one index selected out of three source-class samples: floor(3 / 2)
C3_Witness ==
    /\ pc = "poison" /\ SelfPoisoning
    /\ Cardinality(SourcePositions(y_train_all)) = 3
    /\ Len(poisoned_indices) = 1

Triggered(img) == [img EXCEPT !.trig = TRUE]

FitWarning == "All data points filtered by defense"
Fitted == \E k \in DOMAIN calls : calls[k] = "classifier.fit"
Running == pc \notin {"done", "failed"}
CleanKeys == {"validation_accuracy", "validation_accuracy_targeted_class"}
PoisonKeys == {"test_accuracy", "targeted_misclassification_accuracy"}

\* C5 as stated: once the defense has marked every training sample
\* poisoned, fit is never called on the classifier, the warning is emitted
\* and the run goes on to return a results mapping.
C5_AllFilteredReachesResults ==
    filtered_all =>
        /\ ~Fitted
        /\ pc # "train" => FitWarning \in warnings
        /\ pc # "failed"
        /\ Running => ENABLED Next
        /\ pc = "done" => CleanKeys \subseteq DOMAIN scenario_results

\* some mean the run reports is taken over no score: the test split has no
\* sample of source_class, or the poison_test split of the preloaded attack
\* has no sample at all
EmptyMetric ==
    \/ \A b \in DOMAIN test_data : \A k \in DOMAIN test_data[b] :
          test_data[b][k] # config.source_class
    \/ config.attack_type = "preloaded" /\ test_data_poison = <<>>

\* C5 amended: once the defense has marked every training sample poisoned,
\* fit is never called on the classifier, the warning is emitted, and the run
\* goes on through the evaluation; it returns a results mapping unless a
\* reported metric has no score (no test sample of source_class, or an
\* empty poison_test split), in which case it ends with ZeroDivisionError.
C5_AllFilteredSkipsFit ==
    filtered_all =>
        /\ ~Fitted
        /\ pc # "train" => FitWarning \in warnings
        /\ pc = "failed" => error = "ZeroDivisionError" /\ EmptyMetric
        /\ Running => ENABLED Next
        /\ pc = "done" => CleanKeys \subseteq DOMAIN scenario_results

\* a run that skipped the training for lack of data has returned its results
C5_Witness ==
    /\ filtered_all /\ pc = "done" /\ ~Fitted /\ FitWarning \in warnings
    /\ DOMAIN scenario_results = CleanKeys \cup PoisonKeys

\* C6: the returned mapping has exactly the two clean keys without
\* poisoning, and exactly those and the two poisoned-test keys with it.
C6_ResultKeys ==
    pc = "done" =>
        DOMAIN scenario_results =
            IF Poisoning THEN CleanKeys \cup PoisonKeys ELSE CleanKeys

\* an unpoisoned run has returned the two clean keys only
C6_Witness ==
    /\ pc = "done" /\ ~Poisoning
    /\ DOMAIN scenario_results = CleanKeys

\* the run is in its training stage (no test data loaded yet) and the
\* poison count is zero
ZeroCountPreloaded ==
    /\ config.attack_type = "preloaded" /\ test_data = <<>>
    /\ num_poisoned = 0
ZeroCountSelfPoisoning ==
    /\ SelfPoisoning /\ test_data = <<>> /\ clean_data # <<>>
    /\ IntOfProduct(train_config.fraction_poisoned,
                    Cardinality(SourcePositions(CleanLabels))) = 0

\* C7 as stated: a poison count of zero is fatal for the preloaded attack
\* before any training set is built; otherwise it is a warning only, for
\* every training set, and the training set stays as loaded.
C7_ZeroCountWarningOnly ==
    /\ (ZeroCountPreloaded /\ pc \notin {"start", "attack"}) =>
          /\ pc = "failed" /\ error = "ValueError"
          /\ x_train_all = <<>> /\ calls = <<>>
    /\ ZeroCountSelfPoisoning =>
          /\ pc # "failed"
          /\ pc \in {"poison", "defense", "train", "loadtest"} =>
                "No poisons generated" \in warnings
          /\ pc \in {"defense", "train", "loadtest"} =>
                /\ y_train_all = CleanLabels
                /\ \A i \in DOMAIN x_train_all : x_train_all[i] = Img("train", i)

\* the test of the trigger has taken at least one batch; b is the last one
TriggerTested ==
    /\ SelfPoisoning /\ pc \in {"triggertest", "finish", "done"} /\ batch_i > 1

\* how many of the first i labels of y are source_class
SourceRank(y, i) == Cardinality({k \in 1 .. i : y[k] = config.source_class})

\* C10: the test of the trigger puts the trigger on exactly the source-class
\* samples of a batch; test_metric gets one score per sample, against the
\* true label; targeted_test_metric gets one score per source-class sample,
\* 1 iff the prediction is target_class, and nothing from a batch without
\* a source-class sample.
C10_TriggerTestScores ==
    TriggerTested =>
        LET b == batch_i - 1
            y == test_data[b]
            seen == Concat(SubSeq(test_data, 1, b))
            p == last_pred.y_pred.v
            tv == test_metric.values
            gv == targeted_test_metric.values
            ny == SourceRank(y, Len(y))
        IN  /\ last_pred.stage = "trigger_test" /\ last_pred.y = y
            /\ DOMAIN last_pred.x = DOMAIN y
            /\ \A i \in DOMAIN y :
                  last_pred.x[i] =
                      IF y[i] = config.source_class
                      THEN Triggered(Img("test", Before(test_data, b) + i))
                      ELSE Img("test", Before(test_data, b) + i)
            /\ Len(tv) = Len(seen)
            /\ Len(gv) = SourceRank(seen, Len(seen))
            /\ \A i \in DOMAIN y :
                  /\ tv[Len(tv) - Len(y) + i] = Bool01(ArgMaxRow(p[i]) = y[i])
                  /\ y[i] = config.source_class =>
                        gv[Len(gv) - ny + SourceRank(y, i)] =
                            Bool01(ArgMaxRow(p[i]) = config.target_class)

\* two batches taken: the first has a sample of source_class and a sample of
\* another class, the second has no sample of source_class
C10_Witness ==
    /\ TriggerTested /\ batch_i = 3
    /\ config.source_class # config.target_class
    /\ \E i, j \in DOMAIN test_data[1] :
          /\ test_data[1][i] = config.source_class
          /\ test_data[1][j] # config.source_class
    /\ \A i \in DOMAIN test_data[2] : test_data[2][i] # config.source_class
    /\ Len(test_metric.values) = 3
    /\ targeted_test_metric.values = <<1>>


(***************************************************************************)
(* AccuracySpec: one call categorical_accuracy(y, y_pred).                 *)
(***************************************************************************)
AccInit ==
    /\ ml_args \in MetricArgs("categorical_accuracy")
    /\ metric = MetricList("categorical_accuracy")
    /\ ml_ret = NoRet /\ ml_sum = 0 /\ ml_count = 0 /\ ml_dropped = FALSE
    /\ LoggerIdle
    /\ PipeIdle

CallAccuracy ==
    /\ ml_ret.op = "init"
    /\ LET r == categorical_accuracy(ml_args[1], ml_args[2])
       IN  ml_ret' = [op |-> "categorical_accuracy", err |-> r.err, val |-> r.val]
    /\ UNCHANGED <<metric, ml_sum, ml_count, ml_dropped, ml_args, loggerVars, pipeVars>>

AccuracySpec == AccInit /\ [][CallAccuracy]_vars

\* entry i of a batch, a 0-d array being a batch of one
Entry(a, i) == IF ndim(a) = 0 THEN a.v ELSE a.v[i]

\* the scores of sample i, y_pred having one more dimension than y
ScoresOf(y, p, i) == IF ndim(y) = 0 THEN p.v ELSE p.v[i]

\* y_pred has the shape of y with one more trailing dimension
OneMoreTrailing(y, p) ==
    /\ ndim(p) = ndim(y) + 1
    /\ SubSeq(p.shape, 1, ndim(y)) = y.shape

\* C11 as stated: for equal shapes the result is the element-wise equality,
\* one 0/1 per sample; when y_pred has the shape of y with one more trailing
\* dimension it is, per sample, 1 iff y[i] = argmax(y_pred[i]); for every
\* other pair of shapes the call raises ValueError and returns nothing.
C11_ShapeContract ==
    ml_ret.op = "categorical_accuracy" =>
        LET y == ml_args[1]
            p == ml_args[2]
            n == BatchLen(y)
        IN  IF y.shape = p.shape
            THEN /\ ml_ret.err = "none" /\ Len(ml_ret.val) = n
                 /\ \A i \in 1 .. n :
                       ml_ret.val[i] = Bool01(Entry(y, i) = Entry(p, i))
            ELSE IF OneMoreTrailing(y, p)
            THEN /\ ml_ret.err = "none" /\ Len(ml_ret.val) = n
                 /\ \A i \in 1 .. n :
                       ml_ret.val[i] = Bool01(Entry(y, i) = ArgMaxRow(ScoresOf(y, p, i)))
            ELSE ml_ret.err = "ValueError" /\ ml_ret.val = <<>>


(***************************************************************************)
(* Claims about the order of the calls of a run (Spec).                    *)
(***************************************************************************)
\* the filtering defense is enabled: the configuration asks for it and the
\* run is not a check run (read while the training stage is not over)
DefenseOn == train_config.use_poison_filtering_defense /\ ~check_run

CallRank(c) ==
    CASE c = "classifier_for_defense.fit" -> 1
      [] c = "defense.detect_poison" -> 2
      [] c = "classifier.fit" -> 3
      [] c = "classifier.predict" -> 4

\* the calls made so far are in the order auxiliary fit, detect_poison, fit,
\* predict, and only predict is called more than once
CallsInOrder ==
    \A i, j \in DOMAIN calls :
        i < j => /\ CallRank(calls[i]) <= CallRank(calls[j])
                 /\ CallRank(calls[i]) = CallRank(calls[j]) => calls[i] = "classifier.predict"

\* row is the one-hot row of label
IsOneHotOf(row, label) ==
    /\ label + 1 \in DOMAIN row
    /\ \A c \in DOMAIN row : row[c] = Bool01(c - 1 = label)

\* how many of the first i samples the mask marks clean
CleanRank(i) == Cardinality({k \in 1 .. i : is_clean[k] = 1})

\* C12: with the defense enabled the calls are, in this order, the auxiliary
\* fit on the whole training set, detect_poison, the classifier's fit (when
\* the mask keeps a sample) and the predict calls; the fit gets exactly the
\* samples the mask marks clean, in their order, with their labels.  With
\* the defense disabled or in a check run there is no auxiliary fit and no
\* detect_poison and the classifier is fit on the whole training set.
C12_DefenseOrderAndFilter ==
    /\ [](CallsInOrder)
    /\ []((pc = "loadtest") =>
            LET n == Len(x_train_all)
            IN  IF DefenseOn
                THEN /\ Len(calls) >= 2
                     /\ SubSeq(calls, 1, 2) =
                           <<"classifier_for_defense.fit", "defense.detect_poison">>
                     /\ defense_fit_args.x = x_train_all
                     /\ DOMAIN defense_fit_args.y = 1 .. n
                     /\ \A i \in 1 .. n : IsOneHotOf(defense_fit_args.y[i], y_train_all[i])
                     /\ DOMAIN is_clean = 1 .. n
                     /\ IF CleanRank(n) = 0
                        THEN ~Fitted
                        ELSE /\ calls[3] = "classifier.fit"
                             /\ DOMAIN fit_args.x = 1 .. CleanRank(n)
                             /\ DOMAIN fit_args.y = 1 .. CleanRank(n)
                             /\ \A i \in 1 .. n :
                                   is_clean[i] = 1 =>
                                      /\ fit_args.x[CleanRank(i)] = x_train_all[i]
                                      /\ IsOneHotOf(fit_args.y[CleanRank(i)],
                                                    y_train_all[i])
                ELSE /\ calls = <<"classifier.fit">>
                     /\ fit_args.x = x_train_all
                     /\ DOMAIN fit_args.y = 1 .. n
                     /\ \A i \in 1 .. n : IsOneHotOf(fit_args.y[i], y_train_all[i]))
    /\ [][Len(calls') >= Len(calls) /\ SubSeq(calls', 1, Len(calls)) = calls]_vars

\* the defense kept two of three samples, one of them poisoned, and the
\* classifier was fit on them
C12_Witness ==
    /\ pc = "loadtest" /\ DefenseOn /\ Fitted
    /\ Len(x_train_all) = 3 /\ Len(fit_args.x) = 2
    /\ \E i, j \in DOMAIN is_clean :
          /\ is_clean[i] = 1 /\ x_train_all[i].trig
          /\ is_clean[j] = 0

(***************************************************************************)
(* The test split without a sample of source_class (Spec).                 *)
(***************************************************************************)
\* the test split has been loaded (it has at least one batch)
TestLoaded == test_data # <<>>

\* some batch of the test split has a sample labelled source_class
SourceInTest ==
    \E b \in DOMAIN test_data : \E k \in DOMAIN test_data[b] :
        test_data[b][k] = config.source_class

\* the training stage is over: fit was called, or skipped with the warning
TrainingOver == Fitted \/ FitWarning \in warnings

\* C14: a run returns its results only if the test split has a sample of
\* source_class.  With no such sample, target_class_benign_metric never gets
\* a score, the metrics of the poisoned test are never filled, and the run,
\* its training over, goes through the clean loop and ends with
\* ZeroDivisionError and no results mapping.
C14_NoSourceClassNoResults ==
    /\ pc = "done" => SourceInTest
    /\ (TestLoaded /\ ~SourceInTest) =>
          /\ pc \in {"evalclean", "failed"}
          /\ TrainingOver
          /\ target_class_benign_metric.values = <<>>
          /\ test_metric = None /\ targeted_test_metric = None
          /\ scenario_results = None
          /\ pc = "evalclean" => error = "none" /\ ENABLED Next
          /\ pc = "failed" =>
                /\ error = "ZeroDivisionError"
                /\ batch_i = Len(test_data) + 1
                /\ Len(validation_metric.values) = Len(Concat(test_data))

\* a poisoning run, trained, has read two batches of test data without a
\* sample of source_class and ended with the error
C14_Witness ==
    /\ pc = "failed" /\ error = "ZeroDivisionError"
    /\ TestLoaded /\ ~SourceInTest /\ Len(test_data) = 2
    /\ Poisoning /\ Fitted
    /\ Len(validation_metric.values) = MaxTest
    /\ scenario_results = None

=============================================================================
